---- MODULE Spec2Model ----
(***************************************************************************)
(* Model of the SingletonRegistry of true-static                            *)
(* (src/src/singleton-registry.ts): register, get, clear, isRegistered.     *)
(*                                                                          *)
(* The registry is a Map from class identity to SingletonEntry, the         *)
(* initializationStack is an insertion-ordered Set.  get is recursive; the  *)
(* model keeps its call stack explicitly (frames) and executes one          *)
(* statement group of the topmost call per step.  A thrown Error travels    *)
(* in exc and unwinds one call per step, running the finally block of each  *)
(* call that had entered its try block.  Constructors of the registered     *)
(* classes are the user's; they are modelled as storing their arguments in  *)
(* a fresh object and calling nothing.  The top-level caller makes one call *)
(* at a time: it sees the outcome in result, together with the registry as  *)
(* it was when the call began (pre) and the constructor calls the call made *)
(* (initOrder), and then goes on to its next call.                          *)
(***************************************************************************)
EXTENDS Integers, Sequences, FiniteSets, TLC

\* ------------------------------------------------------------------ bounds
\* class identities that calls may name
Keys == {"A", "B", "C"}

\* objects that constructors may allocate in one behaviour
MaxObjects == 4

\* ------------------------------------------------------------------ values
\* JavaScript values that occur as arguments, instances and results.
Cls(k) == [kind |-> "cls", name |-> k, id |-> 0]
Lit == [kind |-> "lit", name |-> "x", id |-> 0]
Obj(k, n) == [kind |-> "obj", name |-> k, id |-> n]
Undefined == [kind |-> "undef", name |-> "", id |-> 0]

Vals == {Cls(k) : k \in Keys} \cup {Lit}

\* the argument lists a register call may pass: none, one or two arguments,
\* each a class identity or the literal
ArgLists == {<<>>} \cup {<<x>> : x \in Vals} \cup {<<x, y>> : x, y \in Vals}

\* the argument lists tried for class c: two-argument constructors are
\* exercised on class A only, the other classes take at most one argument
ArgListsOf(c) == IF c = "A" THEN ArgLists ELSE {a \in ArgLists : Len(a) <= 1}

\* typeof arg === 'function' && arg.prototype && arg.prototype.constructor === arg
IsConstructor(arg) == arg.kind = "cls"

\* truthiness of a value as tested by `if (entry.instance)`
Truthy(v) == v.kind # "undef"

\* an optional array field: absent (undefined) or an array
Absent == [present |-> FALSE, items |-> <<>>]
Present(s) == [present |-> TRUE, items |-> s]

\* new Map()
EmptyMap == [k \in {} |-> Undefined]

\* Map.prototype.set
MapSet(m, k, v) == [x \in (DOMAIN m) \cup {k} |-> IF x = k THEN v ELSE m[x]]

\* ------------------------------------------------------------------ errors
NoError == [kind |-> "none", name |-> "", dep |-> "", path |-> <<>>]
AlreadyRegisteredError(k) ==
    [kind |-> "AlreadyRegistered", name |-> k, dep |-> "", path |-> <<>>]
NotRegisteredAsMissing(k) ==
    [kind |-> "MissingDependency", name |-> k, dep |-> k, path |-> <<>>]
NotRegisteredError(k) ==
    [kind |-> "NotRegistered", name |-> k, dep |-> "", path |-> <<>>]
MissingDependencyError(d, k) ==
    [kind |-> "MissingDependency", name |-> k, dep |-> d, path |-> <<>>]
StackExhaustedError(p) ==
    [kind |-> "RangeError", name |-> "", dep |-> "", path |-> p]
CircularDependencyError(p) ==
    [kind |-> "CircularDependency", name |-> "", dep |-> "", path |-> p]

VARIABLES
    registry,             \* SingletonRegistry.registry
    initializationStack,  \* SingletonRegistry.initializationStack, in insertion order
    frames,               \* the active calls of get, outermost first
    exc,                  \* the Error being thrown through frames, or NoError
    nextId,               \* identity of the next object a constructor call creates
    result,               \* outcome handed to the top-level caller (pending while get runs)
    pre,                  \* registry when that top-level call began
    initOrder,            \* constructor calls of that top-level get, in order
    Global,               \* globalThis.Global
    proxyInstance,        \* GlobalSingletonProxy.instance
    singletonConstructorMap,  \* globalThis.__singletonConstructorMap
    preGlobal             \* Global, name map and name argument when that call began

vars == <<registry, initializationStack, frames, exc, nextId, result, pre, initOrder,
          Global, proxyInstance, singletonConstructorMap, preGlobal>>

\* the state of the global access layer
gvars == <<Global, proxyInstance, singletonConstructorMap>>

\* ------------------------------------------------------------- results
Bool(b) == [kind |-> "bool", name |-> IF b THEN "true" ELSE "false", id |-> 0]

NoResult == [op |-> "none", key |-> "", err |-> NoError, val |-> Undefined]
Returned(o, k, v) == [op |-> o, key |-> k, err |-> NoError, val |-> v]
Thrown(o, k, e) == [op |-> o, key |-> k, err |-> e, val |-> Undefined]
Pending(k) == [op |-> "get", key |-> k, err |-> [NoError EXCEPT !.kind = "pending"],
               val |-> Undefined]

NoPre == EmptyMap

\* the name map: absent (undefined) or a Map from names to constructors
NoMap == [present |-> FALSE, map |-> EmptyMap]
NameMap(m) == [present |-> TRUE, map |-> m]

\* the proxy object of the n-th GlobalSingletonProxy created
ProxyObj(n) == [kind |-> "proxy", name |-> "Global", id |-> n]

\* a property key: a string or a symbol
Str(n) == [kind |-> "string", name |-> n]
Sym == [kind |-> "symbol", name |-> "Symbol(test)"]

GlobalAt(n) == [Global |-> Global, map |-> singletonConstructorMap, name |-> n]
NoPreGlobal == [Global |-> Undefined, map |-> NoMap, name |-> ""]

\* ------------------------------------------------------------- helpers
\* Array.prototype.includes
Includes(s, x) == \E j \in 1..Len(s) : s[j] = x

\* Array.prototype.indexOf, 1-based; 0 when absent
RECURSIVE IndexFrom(_, _, _)
IndexFrom(s, x, j) ==
    IF j > Len(s) THEN 0
    ELSE IF s[j] = x THEN j
    ELSE IndexFrom(s, x, j + 1)
IndexOf(s, x) == IndexFrom(s, x, 1)

\* Set.prototype.has / add / delete on the insertion-ordered Set
StackHas(s, k) == Includes(s, k)
\* a Set that puts a new key in front
StackAddFront(s, k) == IF StackHas(s, k) THEN s ELSE <<k>> \o s
StackAdd(s, k) == IF StackHas(s, k) THEN s ELSE Append(s, k)
StackDelete(s, k) == SelectSeq(s, LAMBDA x : x # k)

\* Map.prototype.has on the registry, lines 56, 96, 120, 169
Has(reg, k) == k \in DOMAIN reg

\* a get that never finds the instance cached
HasInstanceNever(entry) == FALSE

\* get, line 100: the record already holds its instance
HasInstance(entry) == Truthy(entry.instance)

\* a get that resolves the arguments again on every construction
NeedsResolutionAlways(entry) == TRUE

\* get, line 115: the arguments have not been resolved yet
NeedsResolution(entry) == ~entry.resolvedArgs.present

\* register, lines 60-70: the arguments that are class identities
Dependencies(args) == SelectSeq(args, IsConstructor)

\* register, lines 72-76: the record stored for a class
NewEntry(args) ==
    [args |-> args,
     dependencies |-> Dependencies(args),
     resolvedArgs |-> Absent,
     instance |-> Undefined]

\* a cycle report that does not slice the stack at the key
CycleWholeStack(stack, k) == Append(stack, k)

\* get, lines 105-107: slice of the stack from the key, then the key again
Cycle(stack, k) == Append(SubSeq(stack, IndexOf(stack, k), Len(stack)), k)

Top == frames[Len(frames)]
Pop(fr) == SubSeq(fr, 1, Len(fr) - 1)
Idle == frames = <<>> /\ exc = NoError /\ result = NoResult

\* position of a call after it has pushed argument number i-1 of n
AfterArg(i, n) == IF i > n THEN "construct" ELSE "loop"

\* A call returns v.  The caller, if any, is at line 123 and pushes v onto
\* its resolvedArgs; otherwise v is the result of the top-level get.
RegistryAfterReturn(reg, fr, v) ==
    IF Len(fr) > 1
    THEN LET c == fr[Len(fr) - 1].key
         IN  [reg EXCEPT ![c].resolvedArgs = Present(Append(@.items, v))]
    ELSE reg
FramesAfterReturn(reg, fr) ==
    IF Len(fr) > 1
    THEN LET c == fr[Len(fr) - 1]
             n == Len(reg[c.key].args)
         IN  Append(SubSeq(fr, 1, Len(fr) - 2),
                    [c EXCEPT !.i = c.i + 1, !.pc = AfterArg(c.i + 1, n)])
    ELSE <<>>
ResultAfterReturn(fr, v) ==
    IF Len(fr) > 1 THEN result ELSE Returned(result.op, result.key, v)

\* ------------------------------------------------------------- actions
Init ==
    /\ registry = EmptyMap
    /\ initializationStack = <<>>
    /\ frames = <<>>
    /\ exc = NoError
    /\ nextId = 1
    /\ result = NoResult
    /\ pre = NoPre
    /\ initOrder = <<>>
    /\ Global = Undefined
    /\ proxyInstance = Undefined
    /\ singletonConstructorMap = NoMap
    /\ preGlobal = NoPreGlobal

\* a register that accepts a duplicate silently
RegisterIgnoresDuplicate(c, args) ==
    /\ UNCHANGED <<gvars, preGlobal>>
    /\ Idle
    /\ IF Has(registry, c)
       THEN /\ result' = Returned("register", c, Undefined)
            /\ UNCHANGED registry
       ELSE /\ registry' = MapSet(registry, c, NewEntry(args))
            /\ result' = Returned("register", c, Undefined)
    /\ pre' = registry
    /\ initOrder' = <<>>
    /\ UNCHANGED <<initializationStack, frames, exc, nextId>>

\* a register that stores the record before it checks for a duplicate
RegisterOverwrites(c, args) ==
    /\ UNCHANGED <<gvars, preGlobal>>
    /\ Idle
    /\ registry' = MapSet(registry, c, NewEntry(args))
    /\ result' = IF Has(registry, c)
                 THEN Thrown("register", c, AlreadyRegisteredError(c))
                 ELSE Returned("register", c, Undefined)
    /\ pre' = registry
    /\ initOrder' = <<>>
    /\ UNCHANGED <<initializationStack, frames, exc, nextId>>

\* a register that refuses a dependency without record
RegisterChecksDependencies(c, args) ==
    /\ UNCHANGED <<gvars, preGlobal>>
    /\ Idle
    /\ IF Has(registry, c)
       THEN /\ result' = Thrown("register", c, AlreadyRegisteredError(c))
            /\ UNCHANGED registry
       ELSE IF \E j \in 1..Len(args) : IsConstructor(args[j]) /\ ~Has(registry, args[j].name)
       THEN /\ result' = Thrown("register", c, MissingDependencyError("", c))
            /\ UNCHANGED registry
       ELSE /\ registry' = MapSet(registry, c, NewEntry(args))
            /\ result' = Returned("register", c, Undefined)
    /\ pre' = registry
    /\ initOrder' = <<>>
    /\ UNCHANGED <<initializationStack, frames, exc, nextId>>

\* a register that constructs the instance at once
RegisterEager(c, args) ==
    /\ UNCHANGED <<gvars, preGlobal>>
    /\ Idle
    /\ IF Has(registry, c)
       THEN /\ result' = Thrown("register", c, AlreadyRegisteredError(c))
            /\ UNCHANGED <<registry, nextId>>
       ELSE /\ registry' = MapSet(registry, c,
                               [NewEntry(args) EXCEPT !.instance = Obj(c, nextId)])
            /\ nextId' = nextId + 1
            /\ result' = Returned("register", c, Undefined)
    /\ pre' = registry
    /\ initOrder' = <<>>
    /\ UNCHANGED <<initializationStack, frames, exc>>

\* register(constructor, ...args), lines 52-77
Register(c, args) ==
    /\ UNCHANGED <<gvars, preGlobal>>
    /\ Idle
    /\ IF Has(registry, c)
       THEN /\ result' = Thrown("register", c, AlreadyRegisteredError(c))
            /\ UNCHANGED registry
       ELSE /\ registry' = MapSet(registry, c, NewEntry(args))
            /\ result' = Returned("register", c, Undefined)
    /\ pre' = registry
    /\ initOrder' = <<>>
    /\ UNCHANGED <<initializationStack, frames, exc, nextId>>

\* a clear that resets the stack but keeps the records
ClearStackOnly ==
    /\ UNCHANGED <<gvars, preGlobal>>
    /\ Idle
    /\ initializationStack' = <<>>
    /\ result' = Returned("clear", "", Undefined)
    /\ pre' = registry
    /\ initOrder' = <<>>
    /\ UNCHANGED <<registry, frames, exc, nextId>>

\* clear(), lines 149-152
Clear ==
    /\ UNCHANGED <<gvars, preGlobal>>
    /\ Idle
    /\ registry' = EmptyMap
    /\ initializationStack' = <<>>
    /\ result' = Returned("clear", "", Undefined)
    /\ pre' = registry
    /\ initOrder' = <<>>
    /\ UNCHANGED <<frames, exc, nextId>>

\* an isRegistered that answers whether the instance exists
IsRegisteredWhenBuilt(c) ==
    /\ UNCHANGED <<gvars, preGlobal>>
    /\ Idle
    /\ result' = Returned("isRegistered", c,
                          Bool(Has(registry, c) /\ HasInstance(registry[c])))
    /\ pre' = registry
    /\ initOrder' = <<>>
    /\ UNCHANGED <<registry, initializationStack, frames, exc, nextId>>

\* isRegistered(constructor), lines 168-170
IsRegistered(c) ==
    /\ UNCHANGED <<gvars, preGlobal>>
    /\ Idle
    /\ result' = Returned("isRegistered", c, Bool(Has(registry, c)))
    /\ pre' = registry
    /\ initOrder' = <<>>
    /\ UNCHANGED <<registry, initializationStack, frames, exc, nextId>>

\* the records of a registry that have no instance yet
Unbuilt(reg) == {k \in DOMAIN reg : ~Truthy(reg[k].instance)}

\* a top-level caller invokes get(c)
GetBegin(c) ==
    /\ UNCHANGED <<gvars, preGlobal>>
    /\ Idle
    /\ nextId - 1 + Cardinality(Unbuilt(registry)) <= MaxObjects
    /\ frames' = <<[key |-> c, pc |-> "enter", i |-> 0]>>
    /\ result' = Pending(c)
    /\ pre' = registry
    /\ initOrder' = <<>>
    /\ UNCHANGED <<registry, initializationStack, exc, nextId>>

\* get, lines 94-116 of the topmost call: lookup, cached instance, cycle
\* check, push on the stack, start of the argument resolution
GetEnter ==
    /\ UNCHANGED <<gvars, preGlobal>>
    /\ frames # <<>>
    /\ exc = NoError
    /\ Top.pc = "enter"
    /\ LET k == Top.key IN
       IF ~Has(registry, k)
       THEN /\ exc' = NotRegisteredError(k)
            /\ UNCHANGED <<registry, initializationStack, frames, nextId, result, pre, initOrder>>
       ELSE IF HasInstance(registry[k])
       THEN /\ registry' = RegistryAfterReturn(registry, frames, registry[k].instance)
            /\ frames' = FramesAfterReturn(registry, frames)
            /\ result' = ResultAfterReturn(frames, registry[k].instance)
            /\ UNCHANGED <<initializationStack, exc, nextId, pre, initOrder>>
       ELSE IF StackHas(initializationStack, k)
       THEN /\ exc' = CircularDependencyError(Cycle(initializationStack, k))
            /\ UNCHANGED <<registry, initializationStack, frames, nextId, result, pre, initOrder>>
       ELSE /\ initializationStack' = StackAdd(initializationStack, k)
            /\ IF NeedsResolution(registry[k])
               THEN /\ registry' = [registry EXCEPT ![k].resolvedArgs = Present(<<>>)]
                    /\ frames' = [frames EXCEPT ![Len(frames)] =
                           [@ EXCEPT !.i = 1,
                                     !.pc = AfterArg(1, Len(registry[k].args))]]
               ELSE /\ frames' = [frames EXCEPT ![Len(frames)].pc = "construct"]
                    /\ UNCHANGED registry
            /\ UNCHANGED <<exc, nextId, result, pre, initOrder>>

\* get, lines 118-127: one iteration of the loop over entry.args
GetLoop ==
    /\ UNCHANGED <<gvars, preGlobal>>
    /\ frames # <<>>
    /\ exc = NoError
    /\ Top.pc = "loop"
    /\ LET k == Top.key
           entry == registry[k]
           arg == entry.args[Top.i]
       IN
       IF Includes(entry.dependencies, arg)
       THEN IF ~Has(registry, arg.name)
            THEN /\ exc' = MissingDependencyError(arg.name, k)
                 /\ UNCHANGED <<registry, frames>>
            ELSE /\ frames' = Append(frames, [key |-> arg.name, pc |-> "enter", i |-> 0])
                 /\ UNCHANGED <<registry, exc>>
       ELSE /\ registry' = [registry EXCEPT ![k].resolvedArgs = Present(Append(@.items, arg))]
            /\ frames' = [frames EXCEPT ![Len(frames)] =
                   [@ EXCEPT !.i = Top.i + 1,
                             !.pc = AfterArg(Top.i + 1, Len(entry.args))]]
            /\ UNCHANGED exc
    /\ UNCHANGED <<initializationStack, nextId, result, pre, initOrder>>

\* get, lines 130-134: construct, cache, return through the finally block
GetConstruct ==
    /\ UNCHANGED <<gvars, preGlobal>>
    /\ frames # <<>>
    /\ exc = NoError
    /\ Top.pc = "construct"
    /\ LET k == Top.key
           obj == Obj(k, nextId)
           reg == [registry EXCEPT ![k].instance = obj]
       IN
       /\ nextId' = nextId + 1
       /\ initOrder' = Append(initOrder, [cls |-> k, id |-> nextId,
                                           args |-> registry[k].resolvedArgs.items])
       /\ registry' = RegistryAfterReturn(reg, frames, obj)
       /\ frames' = FramesAfterReturn(reg, frames)
       /\ result' = ResultAfterReturn(frames, obj)
       /\ initializationStack' = StackDelete(initializationStack, k)
    /\ UNCHANGED <<exc, pre>>

\* an unwinding without the finally block
UnwindSkipsFinally ==
    /\ UNCHANGED <<gvars, preGlobal>>
    /\ frames # <<>>
    /\ exc # NoError
    /\ frames' = Pop(frames)
    /\ IF Len(frames) = 1
       THEN /\ result' = Thrown(result.op, result.key, exc)
            /\ exc' = NoError
       ELSE UNCHANGED <<result, exc>>
    /\ UNCHANGED <<registry, initializationStack, nextId, pre, initOrder>>

\* an Error leaves the topmost call: its finally block (line 133) runs if
\* the call was inside the try block; the outermost call hands the Error
\* to the top-level caller
Unwind ==
    /\ UNCHANGED <<gvars, preGlobal>>
    /\ frames # <<>>
    /\ exc # NoError
    /\ initializationStack' =
           IF Top.pc = "enter" THEN initializationStack
           ELSE StackDelete(initializationStack, Top.key)
    /\ frames' = Pop(frames)
    /\ IF Len(frames) = 1
       THEN /\ result' = Thrown(result.op, result.key, exc)
            /\ exc' = NoError
       ELSE UNCHANGED <<result, exc>>
    /\ UNCHANGED <<registry, nextId, pre, initOrder>>

\* the top-level caller has taken the outcome of its call and goes on
CallerResumes ==
    /\ preGlobal' = NoPreGlobal
    /\ UNCHANGED gvars
    /\ frames = <<>>
    /\ exc = NoError
    /\ result # NoResult
    /\ result' = NoResult
    /\ pre' = NoPre
    /\ initOrder' = <<>>
    /\ UNCHANGED <<registry, initializationStack, frames, exc, nextId>>

Next ==
    \/ CallerResumes
    \/ \E c \in Keys : \E args \in ArgListsOf(c) : Register(c, args)
    \/ \E c \in Keys : GetBegin(c)
    \/ GetEnter
    \/ GetLoop
    \/ GetConstruct
    \/ Unwind
    \/ Clear
    \/ \E c \in Keys : IsRegistered(c)

Spec == Init /\ [][Next]_vars

\* ------------------------------------------------------- termination
\* a step of a running get: the call stack of a synchronous call always
\* takes its next step
GetStep == GetEnter \/ GetLoop \/ GetConstruct \/ Unwind

\* the argument lists tried: none or one argument
ShortArgLists == {a \in ArgLists : Len(a) <= 1}

LiveNext ==
    \/ CallerResumes
    \/ \E c \in Keys : \E args \in ShortArgLists : Register(c, args)
    \/ \E c \in Keys : GetBegin(c)
    \/ GetEnter
    \/ GetLoop
    \/ GetConstruct
    \/ Unwind
    \/ Clear

LiveSpec == Init /\ [][LiveNext]_vars /\ WF_vars(GetStep)

\* ------------------------------------------------------ global access
\* the classes, names and argument lists tried through the global layer
GKeys == {"A", "B"}
Names == GKeys
Props == {Str(n) : n \in Names} \cup {Sym}
GArgLists == {<<>>, <<Lit>>} \cup {<<Cls(d)>> : d \in GKeys}

\* GlobalSingletonProxy.getInstance(), lines 244-249, then getProxy()
GetInstance(inst) == IF Truthy(inst) THEN inst ELSE ProxyObj(1)

\* an initializeGlobalAccess that installs a new name map on every call
InitializeGlobalAccessResets ==
    /\ Idle
    /\ singletonConstructorMap' = NameMap(EmptyMap)
    /\ proxyInstance' = GetInstance(proxyInstance)
    /\ Global' = proxyInstance'
    /\ result' = Returned("initializeGlobalAccess", "", Undefined)
    /\ pre' = registry
    /\ preGlobal' = GlobalAt("")
    /\ initOrder' = <<>>
    /\ UNCHANGED <<registry, initializationStack, frames, exc, nextId>>

\* initializeGlobalAccess(), lines 273-282
InitializeGlobalAccess ==
    /\ Idle
    /\ IF ~Truthy(Global)
       THEN /\ singletonConstructorMap' =
                   IF ~singletonConstructorMap.present THEN NameMap(EmptyMap)
                   ELSE singletonConstructorMap
            /\ proxyInstance' = GetInstance(proxyInstance)
            /\ Global' = proxyInstance'
       ELSE UNCHANGED gvars
    /\ result' = Returned("initializeGlobalAccess", "", Undefined)
    /\ pre' = registry
    /\ preGlobal' = GlobalAt("")
    /\ initOrder' = <<>>
    /\ UNCHANGED <<registry, initializationStack, frames, exc, nextId>>

\* a registerGlobalSingleton that maps the name before it registers
RegisterGlobalSingletonMapsFirst(name, c, args) ==
    /\ Idle
    /\ singletonConstructorMap' =
           NameMap(MapSet(singletonConstructorMap.map, name, c))
    /\ IF Has(registry, c)
       THEN /\ result' = Thrown("registerGlobalSingleton", c, AlreadyRegisteredError(c))
            /\ UNCHANGED registry
       ELSE /\ registry' = MapSet(registry, c, NewEntry(args))
            /\ result' = Returned("registerGlobalSingleton", c, Undefined)
    /\ pre' = registry
    /\ preGlobal' = GlobalAt(name)
    /\ initOrder' = <<>>
    /\ UNCHANGED <<initializationStack, frames, exc, nextId, Global, proxyInstance>>

\* registerGlobalSingleton(name, constructor, ...args), lines 304-318
RegisterGlobalSingleton(name, c, args) ==
    /\ Idle
    /\ IF Has(registry, c)
       THEN /\ result' = Thrown("registerGlobalSingleton", c, AlreadyRegisteredError(c))
            /\ UNCHANGED <<registry, singletonConstructorMap>>
       ELSE /\ registry' = MapSet(registry, c, NewEntry(args))
            /\ singletonConstructorMap' =
                   NameMap(MapSet(singletonConstructorMap.map, name, c))
            /\ result' = Returned("registerGlobalSingleton", c, Undefined)
    /\ pre' = registry
    /\ preGlobal' = GlobalAt(name)
    /\ initOrder' = <<>>
    /\ UNCHANGED <<initializationStack, frames, exc, nextId, Global, proxyInstance>>

\* a get trap that looks the property up among the registered classes
ProxyGetByClassName(prop) ==
    /\ Idle
    /\ Truthy(Global)
    /\ IF prop.kind = "string" /\ Has(registry, prop.name)
       THEN /\ nextId - 1 + Cardinality(Unbuilt(registry)) <= MaxObjects
            /\ frames' = <<[key |-> prop.name, pc |-> "enter", i |-> 0]>>
            /\ result' = [Pending(prop.name) EXCEPT !.op = "Global"]
       ELSE /\ result' = Returned("Global", prop.name, Undefined)
            /\ UNCHANGED frames
    /\ pre' = registry
    /\ preGlobal' = GlobalAt(prop.name)
    /\ initOrder' = <<>>
    /\ UNCHANGED <<registry, initializationStack, exc, nextId, gvars>>

\* a get trap that hands out an instance only once it exists
ProxyGetCachedOnly(prop) ==
    /\ Idle
    /\ Truthy(Global)
    /\ result' = Returned("Global", prop.name,
           IF /\ prop.kind = "string"
              /\ singletonConstructorMap.present
              /\ prop.name \in DOMAIN singletonConstructorMap.map
              /\ Has(registry, singletonConstructorMap.map[prop.name])
           THEN registry[singletonConstructorMap.map[prop.name]].instance
           ELSE Undefined)
    /\ pre' = registry
    /\ preGlobal' = GlobalAt(prop.name)
    /\ initOrder' = <<>>
    /\ UNCHANGED <<registry, initializationStack, frames, exc, nextId, gvars>>

\* a read of Global[prop]: the get trap of the proxy, lines 227-236; a
\* mapped name enters SingletonRegistry.get at line 232
ProxyGet(prop) ==
    /\ Idle
    /\ Truthy(Global)
    /\ IF /\ prop.kind = "string"
          /\ singletonConstructorMap.present
          /\ prop.name \in DOMAIN singletonConstructorMap.map
       THEN LET c == singletonConstructorMap.map[prop.name]
            IN  /\ nextId - 1 + Cardinality(Unbuilt(registry)) <= MaxObjects
                /\ frames' = <<[key |-> c, pc |-> "enter", i |-> 0]>>
                /\ result' = [Pending(c) EXCEPT !.op = "Global", !.key = prop.name]
       ELSE /\ result' = Returned("Global", prop.name, Undefined)
            /\ UNCHANGED frames
    /\ pre' = registry
    /\ preGlobal' = GlobalAt(prop.name)
    /\ initOrder' = <<>>
    /\ UNCHANGED <<registry, initializationStack, exc, nextId, gvars>>

\* the set-up between tests: clear() and the removal of both globals
BeforeEach ==
    /\ Idle
    /\ registry' = EmptyMap
    /\ initializationStack' = <<>>
    /\ Global' = Undefined
    /\ singletonConstructorMap' = NoMap
    /\ result' = Returned("beforeEach", "", Undefined)
    /\ pre' = registry
    /\ preGlobal' = GlobalAt("")
    /\ initOrder' = <<>>
    /\ UNCHANGED <<frames, exc, nextId, proxyInstance>>

GlobalNext ==
    \/ CallerResumes
    \/ \E c \in GKeys : \E args \in GArgLists : Register(c, args)
    \/ \E n \in Names : \E c \in GKeys : \E args \in GArgLists :
           RegisterGlobalSingleton(n, c, args)
    \/ InitializeGlobalAccess
    \/ \E prop \in Props : ProxyGet(prop)
    \/ \E c \in GKeys : GetBegin(c)
    \/ GetEnter
    \/ GetLoop
    \/ GetConstruct
    \/ Unwind
    \/ Clear
    \/ BeforeEach

GlobalSpec == Init /\ [][GlobalNext]_vars

\* ------------------------------------------- get, as one evaluation
\* get(k) run to its end from s = [registry, stack, nextId, err, val]:
\* the state it leaves, with the Error thrown or the value returned
RECURSIVE Eval(_, _), EvalArgs(_, _, _)
Eval(s, k) ==
    IF ~Has(s.registry, k)
    THEN [s EXCEPT !.err = NotRegisteredError(k)]
    ELSE IF HasInstance(s.registry[k])
    THEN [s EXCEPT !.val = s.registry[k].instance]
    ELSE IF StackHas(s.stack, k)
    THEN [s EXCEPT !.err = CircularDependencyError(Cycle(s.stack, k))]
    ELSE LET s1 == [s EXCEPT !.stack = StackAdd(@, k)]
             s2 == IF NeedsResolution(s1.registry[k])
                   THEN EvalArgs([s1 EXCEPT !.registry[k].resolvedArgs = Present(<<>>)], k, 1)
                   ELSE s1
             s3 == IF s2.err # NoError THEN s2
                   ELSE [s2 EXCEPT !.registry[k].instance = Obj(k, s2.nextId),
                                   !.nextId = @ + 1,
                                   !.val = Obj(k, s2.nextId)]
         IN  [s3 EXCEPT !.stack = StackDelete(@, k)]

\* the loop of lines 118-127 from argument number i on
EvalArgs(s, k, i) ==
    IF i > Len(s.registry[k].args) THEN s
    ELSE LET arg == s.registry[k].args[i]
         IN  IF Includes(s.registry[k].dependencies, arg)
             THEN IF ~Has(s.registry, arg.name)
                  THEN [s EXCEPT !.err = MissingDependencyError(arg.name, k)]
                  ELSE LET r == Eval(s, arg.name)
                       IN  IF r.err # NoError THEN r
                           ELSE EvalArgs([r EXCEPT !.registry[k].resolvedArgs =
                                              Present(Append(@.items, r.val)),
                                                   !.val = Undefined], k, i + 1)
             ELSE EvalArgs([s EXCEPT !.registry[k].resolvedArgs =
                                Present(Append(@.items, arg))], k, i + 1)

\* a top-level get(k) on registry reg, the next object being number n
GetOutcome(reg, n, k) ==
    Eval([registry |-> reg, stack |-> <<>>, nextId |-> n,
          err |-> NoError, val |-> Undefined], k)

\* ------------------------------------------------------------- typing
TypeOK ==
    /\ DOMAIN registry \subseteq Keys
    /\ \A k \in DOMAIN registry : registry[k].args \in ArgLists
    /\ nextId <= MaxObjects + 1

\* ------------------------------------------------------------- observers
\* the last top-level call was get and it has ended
GetDone == result.op = "get" /\ result.err.kind # "pending"
GetReturned == GetDone /\ result.err = NoError
GetThrew(kind) == GetDone /\ result.err.kind = kind

\* the classes constructed by the last top-level get, in order
RECURSIVE ClassesOf(_)
ClassesOf(log) ==
    IF log = <<>> THEN <<>> ELSE <<log[1].cls>> \o ClassesOf(Tail(log))

\* constructor calls for class k in the last top-level get
CallsOf(k) == {j \in 1..Len(initOrder) : initOrder[j].cls = k}

\* reg holds a record for k
Recorded(reg, k) == k \in DOMAIN reg

\* reg holds a record for k with a constructed instance
Built(reg, k) == k \in DOMAIN reg /\ reg[k].instance.kind = "obj"

\* reg registers k with exactly the arguments args
RegisteredAs(reg, k, args) == k \in DOMAIN reg /\ reg[k].args = args

\* the error e is of the given kind and names the given class
ErrIs(e, kind, name) == e.kind = kind /\ e.name = name

\* ------------------------------------------------------------- claims

\* C1: once get(k) has returned an instance, every later get(k) without a
\* clear() in between returns that same object: a record's instance is never
\* replaced by any step other than clear(), a get(k) that finds an instance
\* cached returns exactly it, and what get(k) returns is the instance the
\* record holds from then on.
C1_SameInstance ==
    [][
        /\ \A k \in Keys :
              (Built(registry, k) /\ ~Clear) =>
                  /\ Recorded(registry', k)
                  /\ registry'[k].instance = registry[k].instance
        /\ (result.err.kind = "pending" /\ result'.err = NoError) =>
              LET k == result'.key IN
              /\ result'.val.kind = "obj"
              /\ result'.val = registry'[k].instance
              /\ Built(pre, k) => result'.val = pre[k].instance
    ]_vars

\* C1 witness: a get returned the instance that was already cached when the
\* call began, after a get on another class had been made.
C1_Witness ==
    /\ GetReturned
    /\ Built(pre, result.key)
    /\ result.val = pre[result.key].instance
    /\ \E k \in Keys : k # result.key /\ Built(registry, k)

\* the chain A -> B -> C, C taking literals only
ChainABC(reg) ==
    /\ RegisteredAs(reg, "A", <<Cls("B")>>)
    /\ RegisteredAs(reg, "B", <<Cls("C")>>)
    /\ Recorded(reg, "C")
    /\ \A j \in 1..Len(reg["C"].args) : reg["C"].args[j].kind = "lit"

\* C2: with the chain A -> B -> C registered and no instance cached, get(A)
\* returns after constructing C, then B, then A, each exactly once.
C2_ChainOrder ==
    (/\ GetDone
     /\ result.key = "A"
     /\ ChainABC(pre)
     /\ \A k \in {"A", "B", "C"} : ~Built(pre, k))
    => (/\ result.err = NoError
        /\ ClassesOf(initOrder) = <<"C", "B", "A">>)

\* the stack s, from the first occurrence of k to the top, followed by k
PathFrom(s, k, p) ==
    \E j \in 1..Len(s) :
        /\ s[j] = k
        /\ \A m \in 1..(j - 1) : s[m] # k
        /\ Len(p) = Len(s) - j + 2
        /\ \A m \in 1..(Len(s) - j + 1) : p[m] = s[j + m - 1]
        /\ p[Len(p)] = k

C4_SelfCycle ==
    \A S \in Keys :
        (GetDone /\ result.key = S /\ RegisteredAs(pre, S, <<Cls(S)>>))
        => (/\ result.err.kind = "CircularDependency"
            /\ result.err.path = <<S, S>>
            /\ CallsOf(S) = {})

\* C5: if Service is registered with the dependency argument Missing and
\* Missing has no record, get(Service) fails with the missing-dependency
\* error naming Missing and Service, and Service's constructor is not called.
C5_MissingDependency ==
    \A Service \in Keys, Missing \in Keys :
        (/\ GetDone
         /\ result.key = Service
         /\ RegisteredAs(pre, Service, <<Cls(Missing)>>)
         /\ ~Recorded(pre, Missing))
        => (/\ ErrIs(result.err, "MissingDependency", Service)
            /\ result.err.dep = Missing
            /\ CallsOf(Service) = {})

\* C6: get(k) on a key without a record fails with the not-registered error
\* for k and constructs nothing, whatever else is registered or constructed.
C6_NotRegistered ==
    (GetDone /\ ~Recorded(pre, result.key))
    => (/\ ErrIs(result.err, "NotRegistered", result.key)
        /\ initOrder = <<>>
        /\ registry = pre)

\* C6 witness: get on an unregistered key has failed while another class is
\* registered and already constructed.
C6_Witness ==
    /\ GetThrew("NotRegistered")
    /\ ~Recorded(pre, result.key)
    /\ \E k \in Keys : Built(registry, k)

\* C7: register on a key that already has a record fails with the
\* already-registered error, whatever the arguments and whether or not the
\* record's instance has been constructed.
C7_AlreadyRegistered ==
    (result.op = "register" /\ Recorded(pre, result.key))
    => ErrIs(result.err, "AlreadyRegistered", result.key)

\* C7 witness: a register call failed on a key whose instance exists.
C7_Witness ==
    /\ result.op = "register"
    /\ result.err.kind = "AlreadyRegistered"
    /\ Built(pre, result.key)

\* C8: a register call that fails with the already-registered error leaves
\* every record (raw arguments, dependency keys, resolved arguments,
\* instance) and the Resolution Stack as they were.
C8_FailedRegisterFrame ==
    (result.op = "register" /\ result.err.kind = "AlreadyRegistered")
    => (registry = pre /\ initializationStack = <<>>)

\* C8 witness: a register call failed on a record that has an argument.
C8_Witness ==
    /\ result.op = "register"
    /\ result.err.kind = "AlreadyRegistered"
    /\ registry[result.key].args # <<>>
    /\ registry[result.key].resolvedArgs.present

\* C9: clear() leaves no record, so every key registered before it, with or
\* without an instance, is reported unregistered by isRegistered and fails
\* get with the not-registered error: isRegistered answers by the records
\* present and get on a key without record throws not-registered.
C9_Clear ==
    /\ (result.op = "clear" => DOMAIN registry = {})
    /\ (result.op = "isRegistered" =>
            (result.val.name = "true" <=> Recorded(registry, result.key)))
    /\ ((GetDone /\ ~Recorded(pre, result.key)) =>
            ErrIs(result.err, "NotRegistered", result.key))

\* C9 witness: clear() has just discarded a registry that held a constructed
\* instance and a record without one.
C9_Witness ==
    /\ result.op = "clear"
    /\ \E k \in Keys : Built(pre, k)
    /\ \E k \in Keys : Recorded(pre, k) /\ ~Built(pre, k)
    /\ DOMAIN registry = {}

\* C10: if Database is registered with the dependency argument Config and
\* Config is registered, Database's constructor receives the instance that
\* get(Config) returns, and Config is constructed at most once.
C10_InjectedDependency ==
    \A Database \in Keys : \A Config \in Keys \ {Database} :
        (/\ GetDone
         /\ RegisteredAs(pre, Database, <<Cls(Config)>>)
         /\ Recorded(pre, Config))
        => /\ \A j \in CallsOf(Database) :
                 /\ Built(registry, Config)
                 /\ initOrder[j].args = <<registry[Config].instance>>
           /\ Cardinality(CallsOf(Config)) <= 1

\* a top-level get is running
InGet == frames # <<>> \/ exc # NoError

\* the last top-level get failed while resolving dependencies
GetFailedResolving == GetThrew("MissingDependency") \/ GetThrew("CircularDependency")

\* C11: the Resolution Stack is empty whenever no get is in progress: before
\* a top-level get begins and after it has ended, by a return or by any
\* error at any depth.
C11_StackEmptyAtRest ==
    ~InGet => initializationStack = <<>>

\* C11 witness: a get has failed two calls deep with a circular dependency
\* and the stack is empty again.
C11_Witness ==
    /\ GetThrew("CircularDependency")
    /\ Len(result.err.path) >= 3
    /\ initializationStack = <<>>

\* C12: when get(k) fails while resolving k's dependencies, k's record is
\* left without instance and with resolvedArgs still absent.
C12_NoPartialResolution ==
    GetFailedResolving =>
        /\ ~Built(registry, result.key)
        /\ ~registry[result.key].resolvedArgs.present

\* C13: a get that fails leaves the registry and the Resolution Stack as
\* they were before the call.
C13_FailedGetFrame ==
    (GetDone /\ result.err # NoError) =>
        (registry = pre /\ initializationStack = <<>>)

\* C14: isRegistered(k) returns true exactly when k has a record, throws
\* nothing, and changes neither the registry nor the Resolution Stack; no
\* constructor runs.
C14_IsRegisteredPure ==
    result.op = "isRegistered" =>
        /\ result.err = NoError
        /\ result.val.kind = "bool"
        /\ (result.val.name = "true" <=> Recorded(pre, result.key))
        /\ registry = pre
        /\ initializationStack = <<>>
        /\ initOrder = <<>>

\* C14 witness: isRegistered answered true for a record without instance.
C14_Witness ==
    /\ result.op = "isRegistered"
    /\ result.val.name = "true"
    /\ Recorded(registry, result.key)
    /\ ~Built(registry, result.key)

\* C15: register calls no constructor: an object is created and a record
\* gains an instance only in a step of a running get, for the key that get
\* is constructing; a register step leaves the object count and every
\* instance as they were.
C15_LazyConstruction ==
    [][
        /\ (nextId' # nextId \/ \E k \in Keys : Built(registry', k) /\ ~Built(registry, k))
           => (/\ frames # <<>>
               /\ result.op = "get"
               /\ Top.pc = "construct"
               /\ nextId' = nextId + 1
               /\ \A k \in Keys : (Built(registry', k) /\ ~Built(registry, k)) => k = Top.key)
        /\ (result'.op = "register" /\ result.op # "register")
           => (/\ nextId' = nextId
               /\ \A k \in Keys : Built(registry', k) <=> Built(registry, k))
    ]_vars

\* C15 witness: a class has been registered with a registered dependency
\* and no record has an instance.
C15_Witness ==
    /\ result.op = "register"
    /\ result.err = NoError
    /\ registry[result.key].dependencies # <<>>
    /\ \A j \in 1..Len(registry[result.key].dependencies) :
           Recorded(registry, registry[result.key].dependencies[j].name)
    /\ \A k \in Keys : ~Built(registry, k)
    /\ nextId = 1

\* C16: without clear(), a record's instance is set at most once: a
\* constructor runs only for a record that has no instance, an instance once
\* set stays, and one get constructs no class twice.
C16_ConstructOnce ==
    [][
        /\ nextId' # nextId
           => (/\ frames # <<>>
               /\ ~Built(registry, Top.key)
               /\ Built(registry', Top.key)
               /\ registry'[Top.key].instance.id = nextId)
        /\ \A k \in Keys :
              (Built(registry, k) /\ Recorded(registry', k))
              => registry'[k].instance = registry[k].instance
        /\ \A k \in Keys : Cardinality({j \in 1..Len(initOrder') : initOrder'[j].cls = k}) <= 1
    ]_vars

\* C16 witness: get(A) has returned with C a dependency of both A and B,
\* after three constructor calls.
C16_Witness ==
    /\ GetReturned
    /\ result.key = "A"
    /\ RegisteredAs(pre, "A", <<Cls("B"), Cls("C")>>)
    /\ RegisteredAs(pre, "B", <<Cls("C")>>)
    /\ Len(initOrder) = 3

\* the record of k is inside its own argument loop
Resolving(k) == \E j \in 1..Len(frames) : frames[j].key = k /\ frames[j].pc = "loop"

\* C17: once the resolvedArgs of a record have been computed (the array
\* exists and the record's argument loop is over) they stay as they are
\* until clear(): no later step appends to, recomputes or replaces them.
C17_ResolvedArgsFrozen ==
    [][
        \A k \in Keys :
            (/\ Recorded(registry, k)
             /\ registry[k].resolvedArgs.present
             /\ ~Resolving(k)
             /\ Recorded(registry', k))
            => registry'[k].resolvedArgs = registry[k].resolvedArgs
    ]_vars

\* C17 witness: a later get on a built record with a resolved dependency
\* has returned and the record's resolvedArgs are as before.
C17_Witness ==
    /\ GetReturned
    /\ Built(pre, result.key)
    /\ pre[result.key].resolvedArgs.items # <<>>
    /\ pre[result.key].resolvedArgs.items[1].kind = "obj"
    /\ registry[result.key].resolvedArgs = pre[result.key].resolvedArgs

\* the name map m maps the name n
Mapped(m, n) == m.present /\ n \in DOMAIN m.map

\* the last top-level call was a read of Global[name] and it has ended
ReadDone == result.op = "Global" /\ result.err.kind # "pending"

\* number of the first object the last top-level call could create
StartId == nextId - Len(initOrder)

\* the evaluation of get agrees with the calls of get, step by step
GetMatchesEval ==
    GetDone =>
        LET o == GetOutcome(pre, StartId, result.key)
        IN  /\ result.err = o.err
            /\ result.val = o.val
            /\ registry = o.registry
            /\ nextId = o.nextId

C19_ReadIsGet ==
    (ReadDone /\ Mapped(preGlobal.map, preGlobal.name)) =>
        LET k == preGlobal.map.map[preGlobal.name]
            o == GetOutcome(pre, StartId, k)
        IN  /\ result.err = o.err
            /\ result.val = o.val
            /\ registry = o.registry
            /\ Built(registry, k) => result.val = registry[k].instance

\* C19 witness: the first read of a mapped name has constructed and
\* returned the instance of its class.
C19_Witness ==
    /\ ReadDone
    /\ Mapped(preGlobal.map, preGlobal.name)
    /\ ~Built(pre, preGlobal.map.map[preGlobal.name])
    /\ result.val.kind = "obj"
    /\ result.val = registry[preGlobal.map.map[preGlobal.name]].instance

\* C20: an initializeGlobalAccess call that finds Global in place leaves
\* the Global object, the name map and the registry as they were.
C20_InitializeIdempotent ==
    (result.op = "initializeGlobalAccess" /\ preGlobal.Global # Undefined) =>
        /\ Global = preGlobal.Global
        /\ singletonConstructorMap = preGlobal.map
        /\ registry = pre

\* C20 witness: a second initializeGlobalAccess has returned while the
\* name A is mapped to a class with a constructed instance.
C20_Witness ==
    /\ result.op = "initializeGlobalAccess"
    /\ preGlobal.Global # Undefined
    /\ Mapped(singletonConstructorMap, "A")
    /\ Built(registry, singletonConstructorMap.map["A"])

\* C21: a constructor call of get receives a sequence as long as the raw
\* arguments of its class, holding at each position the instance of the
\* class named there when the raw argument is a class identity, and the raw
\* argument itself otherwise.
C21_ConstructorArguments ==
    \A j \in 1..Len(initOrder) :
        LET e == initOrder[j]
            raw == registry[e.cls].args
        IN  /\ Len(e.args) = Len(raw)
            /\ \A i \in 1..Len(raw) :
                   IF raw[i].kind = "cls"
                   THEN /\ Built(registry, raw[i].name)
                        /\ e.args[i] = registry[raw[i].name].instance
                   ELSE e.args[i] = raw[i]

\* the classes named by the raw arguments of k
DependsOn(reg, k) ==
    IF k \in DOMAIN reg
    THEN {reg[k].args[i].name : i \in {m \in 1..Len(reg[k].args) : reg[k].args[m].kind = "cls"}}
    ELSE {}

\* the classes reached from the set S in at most n steps along the arguments
RECURSIVE ReachIn(_, _, _)
ReachIn(reg, S, n) ==
    IF n = 0 THEN S
    ELSE ReachIn(reg, S \cup UNION {DependsOn(reg, x) : x \in S}, n - 1)

\* the direct and transitive dependencies of k
Below(reg, k) == ReachIn(reg, DependsOn(reg, k), Cardinality(Keys))

\* every class in the graph of k has a record; no class of it depends on itself
FullyRegistered(reg, k) == ({k} \cup Below(reg, k)) \subseteq DOMAIN reg
Acyclic(reg, k) == \A x \in {k} \cup Below(reg, k) : x \notin Below(reg, x)

\* the classes with an instance
BuiltKeys(reg) == {k \in DOMAIN reg : reg[k].instance.kind = "obj"}

\* members of a sequence
Range(q) == {q[j] : j \in 1..Len(q)}

\* depth-first, left-to-right post-order of the graph of k, leaving out the
\* classes in done
RECURSIVE PostOrder(_, _, _), PostArgs(_, _, _, _)
PostOrder(reg, k, done) ==
    IF k \in done THEN <<>>
    ELSE PostArgs(reg, reg[k].args, 1, done) \o <<k>>
PostArgs(reg, args, i, done) ==
    IF i > Len(args) THEN <<>>
    ELSE IF args[i].kind = "cls"
    THEN LET first == PostOrder(reg, args[i].name, done)
         IN  first \o PostArgs(reg, args, i + 1, done \cup Range(first))
    ELSE PostArgs(reg, args, i + 1, done)

\* C22: on an acyclic, fully registered graph get(k) returns after
\* constructing the classes without instance in depth-first, left-to-right
\* post-order of the raw arguments, a shared class once at its first
\* occurrence.
C22_PostOrder ==
    (/\ GetDone
     /\ FullyRegistered(pre, result.key)
     /\ Acyclic(pre, result.key))
    => (/\ result.err = NoError
        /\ ClassesOf(initOrder) = PostOrder(pre, result.key, BuiltKeys(pre)))

\* the stage of the record of k: 0 without record, 1 registered and not
\* being resolved, 2 on the Resolution Stack, 3 with its instance
Stage(reg, stack, k) ==
    IF k \notin DOMAIN reg THEN 0
    ELSE IF reg[k].instance.kind = "obj" THEN 3
    ELSE IF \E j \in 1..Len(stack) : stack[j] = k THEN 2
    ELSE 1

\* the last top-level call has ended and was not clear()
CallDone == result.op \in {"register", "get", "isRegistered"} /\ result.err.kind # "pending"

\* C23: a record only moves forward: over every register, get and
\* isRegistered call no record falls back to an earlier stage, no record is
\* left on the Resolution Stack, a key with a record keeps it and an instance
\* stays in place in every step that is not clear(), and a record is lost
\* only by clear().
C23_ForwardOnly ==
    /\ [](CallDone => \A k \in Keys :
              /\ Stage(registry, initializationStack, k) >= Stage(pre, <<>>, k)
              /\ Stage(registry, initializationStack, k) # 2)
    /\ [][ \A k \in Keys :
              /\ (Stage(registry, initializationStack, k) = 3 /\ result'.op # "clear")
                 => Stage(registry', initializationStack', k) = 3
              /\ (Recorded(registry, k) /\ ~Recorded(registry', k))
                 => (result'.op = "clear" /\ DOMAIN registry' = {}) ]_vars

\* C23 witness: a get has taken its key from registered to cached and a
\* dependency with it, while a third record stayed without instance.
C23_Witness ==
    /\ GetReturned
    /\ Stage(pre, <<>>, result.key) = 1
    /\ Stage(registry, initializationStack, result.key) = 3
    /\ \E k \in Keys \ {result.key} : Stage(pre, <<>>, k) = 1 /\ Built(registry, k)
    /\ \E k \in Keys : Stage(registry, initializationStack, k) = 1

\* C24: a record with an instance has complete resolved arguments: the
\* array exists and is as long as the raw arguments.
C24_ResolvedBeforeBuilt ==
    \A k \in Keys :
        Built(registry, k) =>
            /\ registry[k].resolvedArgs.present
            /\ Len(registry[k].resolvedArgs.items) = Len(registry[k].args)

\* C25: get(k) on a key with a cached instance returns that instance and
\* leaves the Resolution Stack and the registry alone, in every step of the
\* call; no constructor runs.
C25_FastPath ==
    /\ []((GetDone /\ Built(pre, result.key)) =>
              /\ result.err = NoError
              /\ result.val = pre[result.key].instance
              /\ registry = pre
              /\ initOrder = <<>>)
    /\ [][ (result.op = "get" /\ result.err.kind = "pending" /\ Built(pre, result.key))
           => (/\ initializationStack' = initializationStack
               /\ registry' = registry
               /\ nextId' = nextId) ]_vars

\* C25 witness: get on a cached key with a dependency has returned while
\* another record waits without instance.
C25_Witness ==
    /\ GetReturned
    /\ Built(pre, result.key)
    /\ pre[result.key].dependencies # <<>>
    /\ \E k \in Keys : Recorded(pre, k) /\ ~Built(pre, k)
    /\ initializationStack = <<>>

\* C26: every get call ends: it returns an instance or fails with the
\* not-registered, missing-dependency or circular-dependency error, and the
\* calls of get nested at any time are at most the records plus one.
C26_Terminates ==
    /\ [](Len(frames) <= Cardinality(DOMAIN registry) + 1)
    /\ [](GetDone =>
            \/ result.err = NoError /\ result.val.kind = "obj"
            \/ result.err.kind \in {"NotRegistered", "MissingDependency",
                                    "CircularDependency"})
    /\ ((result.op = "get" /\ result.err.kind = "pending") ~> GetDone)

\* C26 witness: a get has ended in the cycle A -> B -> C -> A on its
\* fourth nested call.
C26_Witness ==
    /\ GetThrew("CircularDependency")
    /\ Len(result.err.path) = 4
    /\ Cardinality(DOMAIN registry) = 3
    /\ frames = <<>>

\* C27: a registerGlobalSingleton call that fails because its class has a
\* record leaves the name map, the Global object and the registry as they
\* were: the name is not added and a mapping of the name is not replaced.
C27_FailedGlobalRegisterFrame ==
    (result.op = "registerGlobalSingleton" /\ result.err # NoError) =>
        /\ ErrIs(result.err, "AlreadyRegistered", result.key)
        /\ Recorded(pre, result.key)
        /\ singletonConstructorMap = preGlobal.map
        /\ Global = preGlobal.Global
        /\ registry = pre

\* C27 witness: a registerGlobalSingleton call has failed for a name that
\* is mapped to another class.
C27_Witness ==
    /\ result.op = "registerGlobalSingleton"
    /\ result.err.kind = "AlreadyRegistered"
    /\ Mapped(singletonConstructorMap, preGlobal.name)
    /\ singletonConstructorMap.map[preGlobal.name] # result.key

\* C28: when get(k) has failed with the missing-dependency or the
\* circular-dependency error, the next get(k), nothing registered or cleared
\* in between, fails with an error of the same kind.
C28_StableFailure ==
    GetFailedResolving =>
        GetOutcome(registry, nextId, result.key).err.kind = result.err.kind

\* the positions of raw holding the class d
PositionsOf(raw, d) == {i \in 1..Len(raw) : raw[i].kind = "cls" /\ raw[i].name = d}

\* C29: when get(Service) has failed because Missing had no record, and
\* registering Missing completes an acyclic graph, the next get(Service)
\* returns an instance constructed from as many arguments as registered,
\* with the instance of Missing at each position of Missing.
C29_Repair ==
    \A Service \in Keys : \A Missing \in Keys \ {Service} :
        (/\ GetThrew("MissingDependency")
         /\ result.key = Service
         /\ ErrIs(result.err, "MissingDependency", Service)
         /\ result.err.dep = Missing)
        => LET repaired == MapSet(registry, Missing, NewEntry(<<>>))
               o == GetOutcome(repaired, nextId, Service)
           IN  (FullyRegistered(repaired, Service) /\ Acyclic(repaired, Service))
               => /\ o.err = NoError
                  /\ Built(o.registry, Service)
                  /\ Built(o.registry, Missing)
                  /\ Len(o.registry[Service].resolvedArgs.items) = Len(o.registry[Service].args)
                  /\ \A i \in PositionsOf(o.registry[Service].args, Missing) :
                         o.registry[Service].resolvedArgs.items[i] = o.registry[Missing].instance

\* no record of reg has been touched by a get
Pristine(reg) ==
    \A k \in DOMAIN reg : ~reg[k].resolvedArgs.present /\ reg[k].instance.kind = "undef"

\* the record register stores for the arguments args
FreshRecord(args) ==
    [args |-> args,
     dependencies |-> SelectSeq(args, LAMBDA a : a.kind = "cls"),
     resolvedArgs |-> [present |-> FALSE, items |-> <<>>],
     instance |-> [kind |-> "undef", name |-> "", id |-> 0]]

\* the orders in which the keys of S can be registered
Orders(S) == {q \in [1..Cardinality(S) -> S] : \A i, j \in 1..Cardinality(S) : q[i] = q[j] => i = j}

\* the registry after registering the classes of reg in the order q
RECURSIVE RegisteredInOrder(_, _, _)
RegisteredInOrder(reg, q, acc) ==
    IF q = <<>> THEN acc
    ELSE RegisteredInOrder(reg, Tail(q), MapSet(acc, Head(q), NewEntry(reg[Head(q)].args)))

\* C30: registration order does not matter: register succeeds whenever its
\* key has no record, whether or not the dependencies named have one, and
\* stores a record that depends on the arguments alone; and when a class d
\* is registered after a class k that names it, before any get, get(k) has
\* the outcome it has after registering the same classes in any other
\* order, with the instance of d at the positions of d if the graph is
\* complete and acyclic.
C30_OrderIrrelevant ==
    /\ result.op = "register" =>
           /\ (result.err = NoError <=> ~Recorded(pre, result.key))
           /\ result.err = NoError =>
                  registry = [k \in DOMAIN pre \cup {result.key} |->
                                 IF k = result.key THEN FreshRecord(registry[k].args)
                                 ELSE pre[k]]
    /\ (result.op = "register" /\ result.err = NoError /\ Pristine(registry)) =>
           \A k \in DOMAIN pre :
               result.key \in DependsOn(pre, k) =>
                   LET o == GetOutcome(registry, nextId, k)
                   IN  /\ \A q \in Orders(DOMAIN registry) :
                              GetOutcome(RegisteredInOrder(registry, q, EmptyMap), nextId, k) = o
                       /\ (FullyRegistered(registry, k) /\ Acyclic(registry, k)) =>
                              /\ o.err = NoError
                              /\ Len(o.registry[k].resolvedArgs.items) = Len(o.registry[k].args)
                              /\ \A i \in PositionsOf(o.registry[k].args, result.key) :
                                     o.registry[k].resolvedArgs.items[i] =
                                         o.registry[result.key].instance

\* C30 witness: a class has been registered after the class that names it
\* as a dependency, before any get, and the graph of the dependant is
\* complete and acyclic.
C30_Witness ==
    /\ result.op = "register"
    /\ result.err = NoError
    /\ Pristine(registry)
    /\ \E k \in DOMAIN pre :
           /\ result.key \in DependsOn(pre, k)
           /\ FullyRegistered(registry, k)
           /\ Acyclic(registry, k)
           /\ Cardinality(Below(registry, k)) = 2

\* the keys of the calls that have passed line 112, outermost first
RECURSIVE PathOf(_)
PathOf(fr) ==
    IF fr = <<>> THEN <<>>
    ELSE IF fr[1].pc = "enter" THEN PathOf(Tail(fr))
    ELSE <<fr[1].key>> \o PathOf(Tail(fr))

\* C31: at every step inside a get the Resolution Stack holds exactly the
\* keys of the calls being resolved, from the top-level key down, in call
\* order and without duplicates, and no key on it has an instance.
C31_StackIsPath ==
    /\ initializationStack = PathOf(frames)
    /\ \A i, j \in 1..Len(initializationStack) :
           initializationStack[i] = initializationStack[j] => i = j
    /\ \A j \in 1..Len(initializationStack) :
           /\ Recorded(registry, initializationStack[j])
           /\ ~Built(registry, initializationStack[j])

\* C31 witness: three nested calls are resolving A, B and C while a fourth
\* call enters a key of the path.
C31_Witness ==
    /\ Len(frames) = 4
    /\ exc = NoError
    /\ initializationStack = <<"A", "B", "C">>
    /\ frames[4].pc = "enter"

\* C32: every name of the name map refers to a class that has a record, and
\* no read of Global ends in the not-registered error.
C32_MappedNamesRegistered ==
    /\ \A n \in Names :
           Mapped(singletonConstructorMap, n) =>
               Recorded(registry, singletonConstructorMap.map[n])
    /\ ReadDone => result.err.kind # "NotRegistered"

\* C33: clear() leaves no record and an empty stack, and a register of k
\* after it stores a record made of the new arguments alone: the next
\* get(k), if it returns, returns an object created after the clear, other
\* than the instance k had, constructed from the new arguments, and a
\* dependency named by them is looked up in the registry after the clear.
C33_FreshAfterClear ==
    /\ result.op = "clear" =>
           /\ DOMAIN registry = {}
           /\ initializationStack = <<>>
           /\ \A k \in DOMAIN pre : \A args \in ShortArgLists :
                  LET o == GetOutcome([x \in {k} |-> FreshRecord(args)], nextId, k)
                  IN  /\ (\A j \in 1..Len(args) : args[j].kind = "lit")
                         => (/\ o.err = NoError
                             /\ o.val.kind = "obj"
                             /\ o.val.id >= nextId
                             /\ o.val # pre[k].instance
                             /\ o.registry[k].resolvedArgs.items = args)
                      /\ (\E j \in 1..Len(args) : args[j].kind = "cls")
                         => o.err.kind \in {"MissingDependency", "CircularDependency"}
    /\ (result.op = "register" /\ result.err = NoError) =>
           /\ ~Recorded(pre, result.key)
           /\ registry[result.key] = FreshRecord(registry[result.key].args)

\* C33 witness: clear() has discarded a record that had an instance
\* constructed from the instance of a dependency.
C33_Witness ==
    /\ result.op = "clear"
    /\ \E k \in DOMAIN pre :
           /\ Built(pre, k)
           /\ pre[k].resolvedArgs.items # <<>>
           /\ pre[k].resolvedArgs.items[1].kind = "obj"
    /\ DOMAIN registry = {}

====
